---- MODULE Spec2Model ----
(***************************************************************************)
(* Model of mlrun_influx_store: the storey targets (per-event write and    *)
(* batch buffer) of storey_target.py and the credential resolution of      *)
(* datastore.py (InfluxStore.get / put) and api.py (write_df).             *)
(*                                                                         *)
(* Spec       the two storey targets: InfluxStoreyTarget.__call__ and      *)
(*            InfluxBatchStoreyTarget.__call__ / _flush_batch / __del__.   *)
(* SpecStore  InfluxStore.get, InfluxStore.put and write_df up to the      *)
(*            backend call.                                                *)
(***************************************************************************)
EXTENDS Integers, Sequences, FiniteSets, TLC

VARIABLES
    cls,              \* the class of the target: per-event or batch
    batch_size,       \* InfluxBatchStoreyTarget.batch_size
    flush_interval,   \* InfluxBatchStoreyTarget.flush_interval (seconds)
    batch_events,     \* InfluxBatchStoreyTarget.batch_events: the buffered rows
    last_flush_time,  \* InfluxBatchStoreyTarget.last_flush_time
    clock,            \* what pd.Timestamp.now() returns, in seconds
    calls,            \* number of events delivered to the batch target so far
    flushes,          \* the _flush_batch runs on a non-empty buffer made by the last operation
    attempts,         \* attempts[r]: how often row r was handed to _write_dataframe_to_influx
    alive,            \* FALSE once __del__ has run
    ret,              \* outcome of the last target operation
    workers,          \* where each worker sharing a batch target is in __call__
    environ,          \* os.environ and the secrets the process sees
    req,              \* the inputs of the last store operation
    out               \* outcome of the last store operation

vars == << cls, batch_size, flush_interval, batch_events, last_flush_time, clock,
           calls, flushes, attempts, alive, ret, workers, environ, req, out >>

targetVars == << cls, batch_size, flush_interval, batch_events, last_flush_time,
                 clock, calls, flushes, attempts, alive, ret, workers >>

storeVars == << environ, req, out >>

----------------------------------------------------------------------------
(* Bounds of the model *)

MaxBatch == 3
MaxInterval == 2
MaxTime == 3
MaxCalls == 4

----------------------------------------------------------------------------
(* Events delivered by the stream engine *)

\* body_dict: object whose .body is a dict     body_df: object whose .body is a DataFrame
\* dict: a plain dict      df: a plain DataFrame      other: anything else
EventKinds == {"body_dict", "body_df", "dict", "df", "other"}

NoEvent == [id |-> 0, kind |-> "none", empty |-> TRUE]

\* what pd.DataFrame(...) / write_df can do when a flush or a write runs
Outcomes == {"ok", "build_error", "write_error"}

\* how long building and writing a table takes: no time, or one second
Durations == {0, 1}

----------------------------------------------------------------------------
(* InfluxBatchStoreyTarget *)

\* should_flush with the size test off by one
ShouldFlush_StrictSize(len, bs, elapsed, fi) == len > bs \/ elapsed >= fi

\* should_flush without the elapsed-time test
ShouldFlush_SizeOnly(len, bs, elapsed, fi) == len >= bs

\* storey_target.py 212-215: should_flush
ShouldFlush(len, bs, elapsed, fi) == len >= bs \/ elapsed >= fi

\* One entry of the flush history: the rows of the DataFrame built at line 233,
\* whether _write_dataframe_to_influx was called with it (line 236), what
\* batch_events held at that moment, how the flush ended and at what time.
FlushEntry(rows, wrote, buffered, outcome, at) ==
    [rows |-> rows, wrote |-> wrote, buffered |-> buffered, outcome |-> outcome,
     at |-> at]

\* _flush_batch whose except clause does not clear the buffer
FlushBatch_KeepOnError(events, lft, now, outcome, dur) ==
    IF events = << >>
    THEN [batch_events |-> events, last_flush_time |-> lft, now |-> now,
          raised |-> FALSE, log |-> << >>]
    ELSE IF outcome = "ok"
    THEN [batch_events |-> << >>, last_flush_time |-> now + dur,
          now |-> now + dur, raised |-> FALSE,
          log |-> << FlushEntry(events, TRUE, events, outcome, now + dur) >>]
    ELSE [batch_events |-> events, last_flush_time |-> lft,
          now |-> now + dur, raised |-> TRUE,
          log |-> << FlushEntry(events, outcome = "write_error", events, outcome, now + dur) >>]

\* _flush_batch that clears the buffer only in its except clause
FlushBatch_KeepOnSuccess(events, lft, now, outcome, dur) ==
    IF events = << >>
    THEN [batch_events |-> events, last_flush_time |-> lft, now |-> now,
          raised |-> FALSE, log |-> << >>]
    ELSE IF outcome = "ok"
    THEN [batch_events |-> events, last_flush_time |-> now + dur,
          now |-> now + dur, raised |-> FALSE,
          log |-> << FlushEntry(events, TRUE, events, outcome, now + dur) >>]
    ELSE [batch_events |-> << >>, last_flush_time |-> lft,
          now |-> now + dur, raised |-> TRUE,
          log |-> << FlushEntry(events, outcome = "write_error", events, outcome, now + dur) >>]

\* _flush_batch that copies the rows out and clears the buffer before it writes
FlushBatch_ClearFirst(events, lft, now, outcome, dur) ==
    IF events = << >>
    THEN [batch_events |-> events, last_flush_time |-> lft, now |-> now,
          raised |-> FALSE, log |-> << >>]
    ELSE IF outcome = "ok"
    THEN [batch_events |-> << >>, last_flush_time |-> now + dur,
          now |-> now + dur, raised |-> FALSE,
          log |-> << FlushEntry(events, TRUE, << >>, outcome, now + dur) >>]
    ELSE [batch_events |-> << >>, last_flush_time |-> lft,
          now |-> now + dur, raised |-> TRUE,
          log |-> << FlushEntry(events, outcome = "write_error", << >>, outcome, now + dur) >>]

\* storey_target.py 226-248: _flush_batch on buffer `events`, started at time
\* `now`; `outcome` is what building the table and writing it do and `dur` the
\* time they take.  Result: the fields it leaves, whether it raised, and the
\* history entries it adds.
FlushBatch(events, lft, now, outcome, dur) ==
    IF events = << >>
    THEN \* 228-229: nothing buffered, return
         [batch_events |-> events, last_flush_time |-> lft, now |-> now,
          raised |-> FALSE, log |-> << >>]
    ELSE CASE outcome = "ok" ->
                \* 233-242: build, write, then clear and stamp the time
                [batch_events |-> << >>, last_flush_time |-> now + dur,
                 now |-> now + dur, raised |-> FALSE,
                 log |-> << FlushEntry(events, TRUE, events, outcome, now + dur) >>]
           [] outcome = "write_error" ->
                \* 236 raises; 244-248: clear, re-raise; last_flush_time is kept
                [batch_events |-> << >>, last_flush_time |-> lft,
                 now |-> now + dur, raised |-> TRUE,
                 log |-> << FlushEntry(events, TRUE, events, outcome, now + dur) >>]
           [] OTHER ->
                \* 233 raises before the write; 244-248: clear, re-raise
                [batch_events |-> << >>, last_flush_time |-> lft,
                 now |-> now + dur, raised |-> TRUE,
                 log |-> << FlushEntry(events, FALSE, events, outcome, now + dur) >>]

\* __call__ without its except clause: what the body raises reaches the caller
CallReturn_Propagate(event, raisedInside) ==
    [returned |-> IF raisedInside THEN NoEvent ELSE event,
     raised |-> raisedInside, logged |-> "none"]

\* storey_target.py 220-224: __call__ returns the event, also when the body of
\* the try raised (the except clause logs and returns the event)
\* `logged`: the level of the message the call logs (91/207 warning, 103/223 error)
CallReturn(event, raisedInside) ==
    [returned |-> event, raised |-> FALSE,
     logged |-> IF raisedInside THEN "error" ELSE "none"]

\* __del__ without its except clause
DelReturn_Propagate(raisedInside) ==
    [returned |-> NoEvent, raised |-> raisedInside, logged |-> "none"]

\* storey_target.py 252-255: __del__ ignores what _flush_batch raises
DelReturn(raisedInside) ==
    [returned |-> NoEvent, raised |-> FALSE, logged |-> "none"]

\* storey_target.py 202-208: which events the batch target buffers
BatchAccepts(event) == event.kind \in {"body_dict", "dict"}

\* storey_target.py 198-224: InfluxBatchStoreyTarget.__call__
BatchCall(event, events, lft, now, bs, fi, outcome, dur) ==
    IF ~BatchAccepts(event)
    THEN \* 207-208
         [batch_events |-> events, last_flush_time |-> lft, now |-> now,
          log |-> << >>,
          ret |-> [op |-> "batch_call", event |-> event, appended |-> FALSE,
                   should_flush |-> FALSE, flushed |-> FALSE, wrote |-> FALSE,
                   logged |-> "warning"]
                  @@ CallReturn(event, FALSE)]
    ELSE LET appended == Append(events, event.id)
             should == ShouldFlush(Len(appended), bs, now - lft, fi)
             fl == IF should
                   THEN FlushBatch(appended, lft, now, outcome, dur)
                   ELSE [batch_events |-> appended, last_flush_time |-> lft,
                         now |-> now, raised |-> FALSE, log |-> << >>]
         IN  [batch_events |-> fl.batch_events,
              last_flush_time |-> fl.last_flush_time,
              now |-> fl.now, log |-> fl.log,
              ret |-> [op |-> "batch_call", event |-> event, appended |-> TRUE,
                       should_flush |-> should, flushed |-> should,
                       wrote |-> (fl.log # << >> /\ fl.log[1].wrote)]
                      @@ CallReturn(event, fl.raised)]

\* storey_target.py 250-255: InfluxBatchStoreyTarget.__del__
BatchDel(events, lft, now, outcome, dur) ==
    LET fl == FlushBatch(events, lft, now, outcome, dur)
    IN  [batch_events |-> fl.batch_events,
         last_flush_time |-> fl.last_flush_time,
         now |-> fl.now, log |-> fl.log,
         ret |-> [op |-> "del", event |-> NoEvent, appended |-> FALSE,
                  should_flush |-> FALSE, flushed |-> TRUE,
                  wrote |-> (fl.log # << >> /\ fl.log[1].wrote)]
                 @@ DelReturn(fl.raised)]

\* The rows of the flush runs `log` that reached _write_dataframe_to_influx
\* (storey_target.py 236), added to the count of write attempts per row.
Written(att, log) ==
    [r \in DOMAIN att |->
        att[r] + Cardinality({i \in DOMAIN log :
                                 /\ log[i].wrote
                                 /\ \E j \in DOMAIN log[i].rows : log[i].rows[j] = r})]

----------------------------------------------------------------------------
(* InfluxStoreyTarget *)

\* storey_target.py 78-92: the event types __call__ turns into a DataFrame
StoreyAccepts(event) == event.kind \in {"body_dict", "body_df", "dict", "df"}

\* storey_target.py 70-105: InfluxStoreyTarget.__call__; the target keeps no
\* state between events
StoreyCall(event, outcome) ==
    IF ~StoreyAccepts(event)
    THEN \* 90-92
         [op |-> "storey_call", event |-> event, appended |-> FALSE,
          should_flush |-> FALSE, flushed |-> FALSE, wrote |-> FALSE,
          logged |-> "warning"]
         @@ CallReturn(event, FALSE)
    ELSE IF outcome = "build_error"
    THEN \* 80 / 86 raise: caught at 102
         [op |-> "storey_call", event |-> event, appended |-> FALSE,
          should_flush |-> FALSE, flushed |-> FALSE, wrote |-> FALSE]
         @@ CallReturn(event, TRUE)
    ELSE IF event.empty
    THEN \* 94-95
         [op |-> "storey_call", event |-> event, appended |-> FALSE,
          should_flush |-> FALSE, flushed |-> FALSE, wrote |-> FALSE]
         @@ CallReturn(event, FALSE)
    ELSE \* 98-100, and 102-105 when the write raises
         [op |-> "storey_call", event |-> event, appended |-> FALSE,
          should_flush |-> FALSE, flushed |-> FALSE, wrote |-> TRUE]
         @@ CallReturn(event, outcome = "write_error")

----------------------------------------------------------------------------
(* The targets as a state machine *)

Classes == {"InfluxStoreyTarget", "InfluxBatchStoreyTarget"}

IdleEnviron == << >>
IdleReq == [op |-> "none"]
IdleOut == [op |-> "none"]

InitRet ==
    [op |-> "init", event |-> NoEvent, appended |-> FALSE,
     should_flush |-> FALSE, flushed |-> FALSE, wrote |-> FALSE,
     returned |-> NoEvent, raised |-> FALSE, logged |-> "none"]

\* storey_target.py 16-68 and 185-196: the constructors.  A per-event target
\* has no batch fields; they are held at fixed values for it.
\* the target has a single caller
NoWorkers == << >>

Init ==
    /\ cls \in Classes
    /\ IF cls = "InfluxBatchStoreyTarget"
       THEN batch_size \in 1..MaxBatch /\ flush_interval \in 0..MaxInterval
       ELSE batch_size = 1 /\ flush_interval = 0
    /\ batch_events = << >>
    /\ clock = 0
    /\ last_flush_time = clock
    /\ calls = 0
    /\ flushes = << >>
    /\ attempts = [r \in 1..MaxCalls |-> 0]
    /\ alive = TRUE
    /\ ret = InitRet
    /\ workers = NoWorkers
    /\ environ = IdleEnviron
    /\ req = IdleReq
    /\ out = IdleOut

\* time passes between two events
Tick ==
    /\ alive
    /\ cls = "InfluxBatchStoreyTarget"
    /\ clock < MaxTime
    /\ clock' = clock + 1
    /\ UNCHANGED << cls, batch_size, flush_interval, batch_events,
                    last_flush_time, calls, flushes, attempts, alive, ret, workers,
                    storeVars >>

\* the stream engine delivers one event to the batch target
Call ==
    /\ alive
    /\ cls = "InfluxBatchStoreyTarget"
    /\ calls < MaxCalls
    /\ \E kind \in EventKinds, empty \in BOOLEAN, outcome \in Outcomes,
          dur \in Durations :
          LET event == [id |-> calls + 1, kind |-> kind, empty |-> empty]
              r == BatchCall(event, batch_events, last_flush_time, clock,
                             batch_size, flush_interval, outcome, dur)
          IN  /\ r.now <= MaxTime
              /\ batch_events' = r.batch_events
              /\ last_flush_time' = r.last_flush_time
              /\ clock' = r.now
              /\ flushes' = r.log
              /\ attempts' = Written(attempts, r.log)
              /\ ret' = r.ret
    /\ calls' = calls + 1
    /\ UNCHANGED << cls, batch_size, flush_interval, alive, workers, storeVars >>

\* the batch target is garbage-collected
Del ==
    /\ alive
    /\ cls = "InfluxBatchStoreyTarget"
    /\ \E outcome \in Outcomes, dur \in Durations :
          LET r == BatchDel(batch_events, last_flush_time, clock, outcome, dur)
          IN  /\ r.now <= MaxTime
              /\ batch_events' = r.batch_events
              /\ last_flush_time' = r.last_flush_time
              /\ clock' = r.now
              /\ flushes' = r.log
              /\ attempts' = Written(attempts, r.log)
              /\ ret' = r.ret
    /\ alive' = FALSE
    /\ UNCHANGED << cls, batch_size, flush_interval, calls, workers, storeVars >>

\* the stream engine delivers one event to a per-event InfluxStoreyTarget
Storey ==
    /\ alive
    /\ cls = "InfluxStoreyTarget"
    /\ calls < MaxCalls
    /\ \E kind \in EventKinds, empty \in BOOLEAN, outcome \in Outcomes :
          ret' = StoreyCall([id |-> calls + 1, kind |-> kind, empty |-> empty],
                            outcome)
    /\ calls' = calls + 1
    /\ UNCHANGED << cls, batch_size, flush_interval, batch_events,
                    last_flush_time, clock, flushes, attempts, alive, workers,
                    storeVars >>

Next == Tick \/ Call \/ Del \/ Storey

Spec == Init /\ [][Next]_vars

----------------------------------------------------------------------------
(* Strings.  A string is the sequence of its parts, so that an f-string is a *)
(* concatenation; the empty string is << >>.                                 *)

\* Python's None, which is no string
None == << "{None}" >>

\* truthiness of an optional string: None and "" are falsy
Truthy(v) == v # None /\ v # << >>

\* `a or b`
Or(a, b) == IF Truthy(a) THEN a ELSE b

\* how an f-string renders a value
Str(v) == IF v = None THEN << "None" >> ELSE v

\* str.upper(), on the letters the model's strings use
UpperPart(p) ==
    CASE p = "dev" -> "DEV"
      [] p = "prod" -> "PROD"
      [] OTHER -> p

Upper(v) == [i \in DOMAIN v |-> UpperPart(v[i])]

----------------------------------------------------------------------------
(* Keys, queries and the environment *)

Params == {"env", "url", "org", "token", "token_secret", "field", "tag", "range"}

Fields == {"URL", "ORG", "TOKEN"}

\* urllib.parse.unquote of a value whose "+" were replaced by spaces, on the
\* parts the model's strings use
Unquote(v) == [i \in DOMAIN v |-> IF v[i] = "+" THEN " " ELSE v[i]]

\* urllib.parse.parse_qs on the pairs of a query string: every parameter's
\* values in order, blank values dropped, the others unquoted
ParseQs(pairs) ==
    [name \in Params |->
        LET sel == SelectSeq(pairs, LAMBDA p : p[1] = name /\ p[2] # << >>)
        IN  [i \in 1..Len(sel) |-> Unquote(sel[i][2])]]

\* q.get(name, [default])[0]
First(q, name, default) == IF q[name] = << >> THEN default ELSE q[name][1]

\* datastore.py 68, 171; api.py 142
EnvOf(q) == Upper(Or(First(q, "env", << "DEV" >>), << "DEV" >>))

\* f"INFLUX_{env}_URL" and its siblings
VarName(env, field) == << "INFLUX_" >> \o env \o << "_", field >>

\* os.osenv.get(name)
EnvGet(osenv, name) == IF name \in DOMAIN osenv THEN osenv[name] ELSE None

\* mlrun.get_secret_or_env(name): the secret or variable of that name as the
\* process sees it, None when there is none (datastore.py 85, 87, 179; api.py 151)
GetSecretOrEnv(osenv, name) == Or(EnvGet(osenv, name), None)

\* "/" in path
HasSlash(path) == \E i \in DOMAIN path : path[i] = "/"

\* the text of a query string
RECURSIVE QueryText(_)
QueryText(pairs) ==
    IF pairs = << >> THEN << >>
    ELSE << pairs[1][1], "=" >> \o pairs[1][2]
         \o (IF Len(pairs) = 1 THEN << >> ELSE << "&" >>)
         \o QueryText(Tail(pairs))

\* the key as text: path?query
KeyText(key) ==
    key.path \o (IF key.query = << >> THEN << >> ELSE << "?" >> \o QueryText(key.query))

\* s.find(part): the position of the first occurrence of a part, 0 for none
Find(s, part) ==
    IF \E i \in DOMAIN s : s[i] = part
    THEN CHOOSE i \in DOMAIN s : s[i] = part /\ \A j \in 1..(i - 1) : s[j] # part
    ELSE 0

\* s.split(sep, 1)[0] and s.split(sep, 1)[1] for an s that contains sep
SplitHead(s, sep) == SubSeq(s, 1, Find(s, sep) - 1)

SplitTail(s, sep) == SubSeq(s, Find(s, sep) + 1, Len(s))

----------------------------------------------------------------------------
(* InfluxStore.get: the Flux query and the table made of the result *)

\* a filter that compares the tag value first
TagClause_Swapped(tag) ==
    << " |> filter(fn: (r) => r." >> \o SplitTail(tag, ":") \o << " == \"" >>
    \o SplitHead(tag, ":") \o << "\")" >>

\* datastore.py 109-111: the clause of one tag that contains ":"
TagClause(tag) ==
    << " |> filter(fn: (r) => r." >> \o SplitHead(tag, ":") \o << " == \"" >>
    \o SplitTail(tag, ":") \o << "\")" >>

\* datastore.py 107-111: the loop over tag_filters
RECURSIVE TagClauses(_)
TagClauses(tag_filters) ==
    IF tag_filters = << >> THEN << >>
    ELSE (IF Find(tag_filters[1], ":") # 0 THEN TagClause(tag_filters[1]) ELSE << >>)
         \o TagClauses(Tail(tag_filters))

\* datastore.py 100-111
BuildQuery(bucket, measurement, range_window, field_filter, tag_filters) ==
    << "from(bucket:\"" >> \o bucket \o << "\") " >>
    \o << "|> range(start: " >> \o range_window \o << ") " >>
    \o << "|> filter(fn: (r) => r._measurement == \"" >> \o measurement \o << "\")" >>
    \o (IF Truthy(field_filter)
        THEN << " |> filter(fn: (r) => r._field == \"" >> \o field_filter \o << "\")" >>
        ELSE << >>)
    \o TagClauses(tag_filters)

\* datastore.py 122-125: the names a record's tags leave out
ReservedNames == {"_time", "_field", "_value", "_measurement"}

\* a row that keeps the reserved names among its tags
RecordRow_AllValues(record) ==
    [time |-> record["_time"], field |-> record["_field"],
     value |-> record["_value"], measurement |-> record["_measurement"],
     tags |-> record]

\* datastore.py 121-129: the tuple appended for one record, a record being
\* its `values` mapping
RecordRow(record) ==
    [time |-> record["_time"], field |-> record["_field"],
     value |-> record["_value"], measurement |-> record["_measurement"],
     tags |-> [k \in DOMAIN record \ ReservedNames |-> record[k]]]

\* datastore.py 119-120: the loops over the tables and their records
RECURSIVE Records(_)
Records(tables) ==
    IF tables = << >> THEN << >>
    ELSE [i \in DOMAIN tables[1] |-> RecordRow(tables[1][i])] \o Records(Tail(tables))

\* datastore.py 131: pd.DataFrame(records, columns=[...])
ResultFrame(tables) ==
    [columns |-> << "time", "field", "value", "measurement", "tags" >>,
     rows |-> Records(tables)]

\* no DataFrame
NoFrame == [columns |-> << >>, rows |-> << >>]

\* datastore.py 134: f"influx://{key}"
FullUrl(key) == << "influx://" >> \o KeyText(key)

----------------------------------------------------------------------------
(* Credential resolution *)

\* ctx.get_secret(name) of the run context given to get: "none" is no context
CtxHas(ctx, name) == ctx.kind = "has" /\ name \in ctx.names

\* datastore.py 78 / 177, api.py 149
ResolveUrl(q, env, osenv) ==
    Or(First(q, "url", None), EnvGet(osenv, VarName(env, "URL")))

\* datastore.py 79 / 178, api.py 150
ResolveOrg(q, env, osenv) ==
    Or(First(q, "org", None), EnvGet(osenv, VarName(env, "ORG")))

\* the token with a named secret taking precedence over the inline token
ResolveTokenWrite_SecretFirst(q, env, osenv) ==
    LET token_inline == First(q, "token", None)
        token_secret == First(q, "token_secret", None)
    IN  IF Truthy(token_secret)
        THEN GetSecretOrEnv(osenv, token_secret)
        ELSE Or(token_inline, GetSecretOrEnv(osenv, VarName(env, "TOKEN")))

\* datastore.py 179, api.py 151
ResolveTokenWrite(q, env, osenv) ==
    LET token_inline == First(q, "token", None)
        token_secret == First(q, "token_secret", None)
    IN  Or(token_inline,
           GetSecretOrEnv(osenv, Or(token_secret, VarName(env, "TOKEN"))))

\* datastore.py 81-92
ResolveTokenGet(q, env, osenv, ctx) ==
    LET token_inline == First(q, "token", None)
        token_secret == First(q, "token_secret", None)
        token == IF Truthy(token_inline) THEN token_inline
                 ELSE IF Truthy(token_secret)
                      THEN GetSecretOrEnv(osenv, token_secret)
                      ELSE GetSecretOrEnv(osenv, VarName(env, "TOKEN"))
        name == Or(token_secret, VarName(env, "TOKEN"))
    IN  IF ~Truthy(token) /\ ctx.kind # "none"
        THEN IF ctx.kind = "raises" THEN token           \* 91-92
             ELSE IF CtxHas(ctx, name) THEN ctx.value    \* 90
             ELSE None
        ELSE token

\* a check that only looks at the token
MissingConfig_TokenOnly(url, org, token) == ~Truthy(token)

\* datastore.py 93, 180; api.py 152
MissingConfig(url, org, token) == ~Truthy(url) \/ ~Truthy(org) \/ ~Truthy(token)

\* datastore.py 94-98, 181-185: the message of the ValueError
MissingConfigMessage(env, url, org) ==
    << "Missing Influx config (env=" >> \o env \o << "). " >>
    \o << "Need url/org/token via URL or env/secrets: " >>
    \o VarName(env, "URL") \o << " : " >> \o Str(url) \o << ", " >>
    \o VarName(env, "ORG") \o << " : " >> \o Str(org) \o << " and " >>
    \o VarName(env, "TOKEN")

\* api.py 153: the message of the ValueError
MissingConfigMessageWriteDf(env) ==
    << "Missing Influx config for env=" >> \o env \o << " (url/org/token)." >>

\* datastore.py 61, 168: the message of the ValueError for a path without "/"
InvalidKeyMessage(key) ==
    << "Invalid key: " >> \o KeyText(key)
    \o << ". Expected format 'bucket/measurement'" >>

\* api.py 133
InvalidUriMessage == << "URI path must look like bucket/measurement" >>

----------------------------------------------------------------------------
(* InfluxStore.get, InfluxStore.put and write_df, up to the backend call *)

\* an outcome in which a failure of the backend call goes unnoticed
Reached_Unnoticed(op, resolved, call, backend_ok) ==
    [op |-> op, raised |-> "none", site |-> "none",
     msg |-> << >>, resolved |-> resolved,
     client |-> [created |-> TRUE, url |-> resolved.url, org |-> resolved.org,
                 token |-> resolved.token],
     backend |-> call, query |-> << >>,
     df |-> [columns |-> << >>, rows |-> << >>], item |-> << "{None}" >>,
     points |-> << >>]

NoClient == [created |-> FALSE, url |-> None, org |-> None, token |-> None]

\* InfluxDBClient(url=..., token=..., org=...): datastore.py 114, 212; api.py 160
Client(url, org, token) == [created |-> TRUE, url |-> url, org |-> org, token |-> token]

Unresolved == [env |-> None, url |-> None, org |-> None, token |-> None]

\* an operation that raised at `site` before it created a client
Raised(op, site, class, msg, resolved) ==
    [op |-> op, raised |-> class, site |-> site, msg |-> msg,
     resolved |-> resolved, client |-> NoClient, backend |-> "none",
     query |-> << >>, df |-> NoFrame, item |-> None, points |-> << >>]

\* an operation that created its client and then called the backend (`call`
\* is "query", "write" or "none"), which succeeded or raised
Reached(op, resolved, call, backend_ok) ==
    [op |-> op,
     raised |-> IF call # "none" /\ ~backend_ok THEN "BackendError" ELSE "none",
     site |-> IF call # "none" /\ ~backend_ok THEN "backend" ELSE "none",
     msg |-> << >>, resolved |-> resolved,
     client |-> Client(resolved.url, resolved.org, resolved.token),
     backend |-> call, query |-> << >>, df |-> NoFrame, item |-> None,
     points |-> << >>]

\* datastore.py 51-155: InfluxStore.get(key, ctx=ctx); `tables` is what the
\* backend answers to the query when it does not raise
StoreGet(key, osenv, ctx, backend_ok, tables) ==
    IF ~HasSlash(key.path)
    THEN Raised("get", "invalid_key", "ValueError", InvalidKeyMessage(key), Unresolved)
    ELSE LET bucket == SplitHead(key.path, "/")                       \* 63
             measurement == SplitTail(key.path, "/")
             q == ParseQs(key.query)
             field_filter == First(q, "field", None)                  \* 66
             tag_filters == q["tag"]                                  \* 67
             range_window == First(q, "range", << "-1h" >>)           \* 69
             query == BuildQuery(bucket, measurement, range_window,
                                 field_filter, tag_filters)
             env == EnvOf(q)
             url == ResolveUrl(q, env, osenv)
             org == ResolveOrg(q, env, osenv)
             token == ResolveTokenGet(q, env, osenv, ctx)
             resolved == [env |-> env, url |-> url, org |-> org, token |-> token]
         IN  IF MissingConfig(url, org, token)
             THEN Raised("get", "missing_config", "ValueError",
                         MissingConfigMessage(env, url, org), resolved)
             ELSE IF ~backend_ok
             THEN \* 116: the query raises
                  [Reached("get", resolved, "query", backend_ok)
                      EXCEPT !.query = query]
             ELSE \* 118-155: the DataItem returned
                  [Reached("get", resolved, "query", backend_ok)
                      EXCEPT !.query = query, !.df = ResultFrame(tables),
                             !.item = FullUrl(key)]

\* datastore.py 157-214: InfluxStore.put(key, obj)
StorePut(key, osenv, obj, backend_ok) ==
    IF ~HasSlash(key.path)
    THEN Raised("put", "invalid_key", "ValueError", InvalidKeyMessage(key), Unresolved)
    ELSE LET q == ParseQs(key.query)
             env == EnvOf(q)
             url == ResolveUrl(q, env, osenv)
             org == ResolveOrg(q, env, osenv)
             token == ResolveTokenWrite(q, env, osenv)
             resolved == [env |-> env, url |-> url, org |-> org, token |-> token]
         IN  IF MissingConfig(url, org, token)
             THEN Raised("put", "missing_config", "ValueError",
                         MissingConfigMessage(env, url, org), resolved)
             ELSE IF obj = "bad_type"
             THEN \* 194-195
                  Raised("put", "bad_obj", "ValueError",
                         << "obj must be a DataFrame, dict, or list of dicts" >>,
                         resolved)
             ELSE \* 212-214: the write is issued whatever the number of points
                  Reached("put", resolved, "write", backend_ok)

\* api.py 115-183: write_df(uri, df), key being the uri after "influx://"
WriteDf(key, osenv, df, backend_ok) ==
    IF ~HasSlash(key.path)
    THEN Raised("write_df", "invalid_key", "ValueError", InvalidUriMessage, Unresolved)
    ELSE LET q == ParseQs(key.query)
             env == EnvOf(q)
             url == ResolveUrl(q, env, osenv)
             org == ResolveOrg(q, env, osenv)
             token == ResolveTokenWrite(q, env, osenv)
             resolved == [env |-> env, url |-> url, org |-> org, token |-> token]
         IN  IF MissingConfig(url, org, token)
             THEN Raised("write_df", "missing_config", "ValueError",
                         MissingConfigMessageWriteDf(env), resolved)
             ELSE IF df = "no_time_col"
             THEN \* 159: df[time_col] raises before the client is created
                  Raised("write_df", "no_time_col", "KeyError", << "time" >>, resolved)
             ELSE IF df = "empty"
             THEN \* 160-182: client created, no point, no write
                  Reached("write_df", resolved, "none", backend_ok)
             ELSE IF df = "bad_index"
             THEN \* 165: client created, ts.iloc[i] raises, no write
                  [Reached("write_df", resolved, "none", backend_ok)
                      EXCEPT !.raised = "IndexError", !.site = "bad_index",
                             !.msg = << "single positional indexer is out-of-bounds" >>]
             ELSE Reached("write_df", resolved, "write", backend_ok)

----------------------------------------------------------------------------
(* The store operations as a state machine *)

InlineUrl == << "http://inline:8086" >>
InlineOrg == << "inline-org" >>
InlineToken == << "inline-token" >>
SecretName == << "MY_SECRET" >>
SecretToken == << "secret-token" >>
CtxToken == << "ctx-token" >>

\* the value a variable INFLUX_<ENV>_<FIELD> has when it is set
VarValue(env, field) == << env[1], "-", field >>

Envs == {<< "DEV" >>, << "PROD" >>}

VarNames == {VarName(e, f) : e \in Envs, f \in Fields} \cup {SecretName}

\* the process environment: which DEV variables are set, how the others look
\* (absent, or set to ""), whether the PROD variables are set and whether
\* MY_SECRET is
Environ(devSet, blank, prod, secret) ==
    [n \in VarNames |->
        IF n = SecretName THEN (IF secret THEN SecretToken ELSE None)
        ELSE IF n[2] = "PROD" THEN (IF prod THEN VarValue(<< "PROD" >>, n[4]) ELSE None)
        ELSE IF n[4] \in devSet THEN VarValue(<< "DEV" >>, n[4])
        ELSE IF blank THEN << >> ELSE None]

Environs ==
    {Environ(d, b, p, s) : d \in SUBSET Fields, b \in BOOLEAN, p \in BOOLEAN,
                           s \in BOOLEAN}

\* one optional occurrence of a query parameter
Opt(name, values) == {<< >>} \cup {<< << name, v >> >> : v \in values}

Queries ==
    {e \o u \o o \o t \o ts :
        e \in Opt("env", {<< >>, << "prod" >>}),
        u \in Opt("url", {InlineUrl}),
        o \in Opt("org", {InlineOrg}),
        t \in Opt("token", {<< >>, InlineToken}),
        ts \in Opt("token_secret", {SecretName})}

Paths ==
    {<< "bucket", "/", "cpu" >>, << "bucket" >>, << "/", "cpu" >>, << "bucket", "/" >>}

Keys == {[path |-> p, query |-> q] : p \in Paths, q \in Queries}

\* a query answered with no table
NoTables == << >>

NoCtx == [kind |-> "none", names |-> {}, value |-> None]

Ctxs ==
    {NoCtx,
     [kind |-> "raises", names |-> {}, value |-> None],
     [kind |-> "has", names |-> {}, value |-> CtxToken],
     [kind |-> "has", names |-> {SecretName}, value |-> CtxToken],
     [kind |-> "has", names |-> {VarName(<< "DEV" >>, "TOKEN")}, value |-> CtxToken]}

\* The store keeps no state between two operations (datastore.py 35-37): every
\* operation is a function of its arguments and the environment, so a behaviour
\* is one environment and one operation in it.
InitStore ==
    /\ environ \in Environs
    /\ req = IdleReq
    /\ out = IdleOut
    /\ cls = "InfluxStoreyTarget"
    /\ batch_size = 1 /\ flush_interval = 0
    /\ batch_events = << >>
    /\ clock = 0 /\ last_flush_time = 0
    /\ calls = 0
    /\ flushes = << >>
    /\ attempts = [r \in 1..MaxCalls |-> 0]
    /\ alive = TRUE
    /\ ret = InitRet
    /\ workers = NoWorkers

Get ==
    /\ out = IdleOut
    /\ \E key \in Keys, ctx \in Ctxs, backend_ok \in BOOLEAN :
          /\ req' = [op |-> "get", key |-> key, ctx |-> ctx, payload |-> "none",
                     backend_ok |-> backend_ok]
          /\ out' = StoreGet(key, environ, ctx, backend_ok, NoTables)
    /\ UNCHANGED << environ, targetVars >>

Put ==
    /\ out = IdleOut
    /\ \E key \in Keys, obj \in {"records", "bad_type"}, backend_ok \in BOOLEAN :
          /\ req' = [op |-> "put", key |-> key, ctx |-> NoCtx, payload |-> obj,
                     backend_ok |-> backend_ok]
          /\ out' = StorePut(key, environ, obj, backend_ok)
    /\ UNCHANGED << environ, targetVars >>

Write ==
    /\ out = IdleOut
    /\ \E key \in Keys, df \in {"rows", "empty", "no_time_col"},
          backend_ok \in BOOLEAN :
          /\ req' = [op |-> "write_df", key |-> key, ctx |-> NoCtx, payload |-> df,
                     backend_ok |-> backend_ok]
          /\ out' = WriteDf(key, environ, df, backend_ok)
    /\ UNCHANGED << environ, targetVars >>

NextStore == Get \/ Put \/ Write

SpecStore == InitStore /\ [][NextStore]_vars

----------------------------------------------------------------------------
(* InfluxStore.get as a state machine of its own: the keys vary in path,    *)
(* field, tag and range and carry their credentials inline; the backend     *)
(* answers with tables of records.                                          *)

MaxTags == 2
MaxTables == 2
MaxRecords == 2

\* no storey target is in use
IdleTargets ==
    /\ cls = "InfluxStoreyTarget"
    /\ batch_size = 1 /\ flush_interval = 0
    /\ batch_events = << >>
    /\ clock = 0 /\ last_flush_time = 0
    /\ calls = 0
    /\ flushes = << >>
    /\ attempts = [r \in 1..MaxCalls |-> 0]
    /\ alive = TRUE
    /\ ret = InitRet
    /\ workers = NoWorkers

\* the sequences over a set of at most n elements
SeqsUpTo(S, n) == UNION {[1..k -> S] : k \in 0..n}

\* values of tag=...: key:value, no colon, two colons, empty key, blank
TagValues ==
    {<< "host", ":", "a" >>, << "host" >>, << "k", ":", "v", ":", "w" >>,
     << ":", "v" >>, << >>}

TagQueries ==
    {[i \in DOMAIN tags |-> << "tag", tags[i] >>] : tags \in SeqsUpTo(TagValues, MaxTags)}

InlineCredentials ==
    << << "url", InlineUrl >>, << "org", InlineOrg >>, << "token", InlineToken >> >>

ReadKeys ==
    {[path |-> p, query |-> InlineCredentials \o f \o t \o r] :
        p \in {<< "bucket", "/", "cpu" >>, << "bucket", "/", "cpu", "/", "load" >>},
        f \in Opt("field", {<< >>, << "usage" >>}),
        t \in TagQueries,
        r \in Opt("range", {<< "-7d" >>})}

\* FluxRecord.values of two records: one with tags, one without
RecordValues ==
    {("_time" :> 1 @@ "_field" :> "usage" @@ "_value" :> 10 @@ "_measurement" :> "cpu"
        @@ "host" :> "a" @@ "result" :> "_result" @@ "table" :> 0),
     ("_time" :> 2 @@ "_field" :> "temp" @@ "_value" :> 20 @@ "_measurement" :> "cpu")}

\* what query_api.query returns: tables of records
Results == SeqsUpTo(SeqsUpTo(RecordValues, MaxRecords), MaxTables)

\* a key with every kind of clause
FullKey ==
    [path |-> << "bucket", "/", "cpu" >>,
     query |-> InlineCredentials
               \o << << "field", << "usage" >> >>, << "tag", << "host", ":", "a" >> >> >>]

\* the query depends on the key only and the table on the result only: the
\* keys are tried with an empty result and the results with one key
ReadInputs ==
    {[key |-> k, tables |-> NoTables] : k \in ReadKeys}
    \cup {[key |-> FullKey, tables |-> t] : t \in Results}

InitRead ==
    /\ environ = Environ({}, FALSE, FALSE, FALSE)
    /\ req = IdleReq
    /\ out = IdleOut
    /\ IdleTargets

Read ==
    /\ out = IdleOut
    /\ \E input \in ReadInputs, backend_ok \in BOOLEAN :
          /\ req' = [op |-> "get", key |-> input.key, ctx |-> NoCtx,
                     payload |-> "none", backend_ok |-> backend_ok,
                     tables |-> input.tables]
          /\ out' = StoreGet(input.key, environ, NoCtx, backend_ok, input.tables)
    /\ UNCHANGED << environ, targetVars >>

NextRead == Read

SpecRead == InitRead /\ [][NextRead]_vars

----------------------------------------------------------------------------
(* write_df: the points made of a DataFrame (api.py 155-183).  A DataFrame  *)
(* is its column names, its row index labels and its rows; a cell is the    *)
(* value row[c] as df.iterrows() delivers it: its Python class, its number  *)
(* in hundredths when it is one, and the text str() gives.                  *)

\* the classes isinstance(v, (bool, int, float)) accepts: the three builtins
\* and numpy.float64, which derives from float (numpy.int64 does not derive
\* from int)
PassThrough == {"bool", "int", "float", "numpy.float64"}

\* the field type Point.field gives a value of a class that passes through
FieldType(py) ==
    CASE py = "bool" -> "boolean"
      [] py = "int" -> "integer"
      [] OTHER -> "float"

\* float(text) of the texts that are numbers
ParseFloat == ("3.14" :> 314 @@ "7" :> 700)

\* whether float(v) succeeds for a value that did not pass through
CanFloat(v) ==
    \/ v.py = "numpy.int64"
    \/ v.py = "str" /\ v.text \in DOMAIN ParseFloat

\* api.py 171-179: the field value emitted for a non-null value
Coerce(v) ==
    IF v.py \in PassThrough THEN [type |-> FieldType(v.py), value |-> v.num]
    ELSE IF CanFloat(v)
    THEN [type |-> "float",
          value |-> IF v.py = "str" THEN ParseFloat[v.text] ELSE v.num]
    ELSE [type |-> "string", value |-> v.text]

\* pd.notna(v)
NotNa(v) == v.py # "NoneType" /\ v.py # "nan"

\* c in df.columns
HasColumn(df, c) == \E i \in DOMAIN df.columns : df.columns[i] = c

\* whether ts.iloc[i] finds a row for every label i that df.iterrows() yields
LabelsInRange(df) == \A p \in DOMAIN df.index : df.index[p] \in 0..(Len(df.rows) - 1)

\* api.py 164-181: the point of the row at position pos, whose label df.index[pos]
\* is what ts.iloc[...] is given
RowPoint(df, pos, measurement, time_col, tag_cols, field_cols) ==
    LET row == df.rows[pos]
        i == df.index[pos]
        tags == SelectSeq(tag_cols, LAMBDA c : HasColumn(df, c) /\ NotNa(row[c]))
        fields == SelectSeq(field_cols, LAMBDA c : HasColumn(df, c) /\ NotNa(row[c]))
    IN  [measurement |-> measurement,
         time |-> df.rows[i + 1][time_col].num,
         tags |-> [k \in DOMAIN tags |-> [name |-> tags[k], value |-> row[tags[k]].text]],
         fields |-> [k \in DOMAIN fields |->
                        [name |-> fields[k]] @@ Coerce(row[fields[k]])]]

\* an inference that leaves the tag columns among the fields
InferredFieldCols_KeepTags(df, time_col, tag_cols) ==
    SelectSeq(df.columns, LAMBDA c : c # time_col)

\* the columns that are neither the time column nor a tag column, in column
\* order: api.py 156-157, targetstore.py 313-315, storey_target.py 170-172
InferredFieldCols(df, time_col, tag_cols) ==
    SelectSeq(df.columns,
              LAMBDA c : c # time_col /\ \A k \in DOMAIN tag_cols : tag_cols[k] # c)

\* api.py 155-181: the points write_df builds, field_cols = None meaning that
\* the caller gave none; the labels are in range
Points(df, measurement, time_col, tag_cols, field_cols) ==
    LET cols == IF field_cols = None
                THEN InferredFieldCols(df, time_col, Or(tag_cols, << >>))
                ELSE field_cols
    IN  [pos \in DOMAIN df.rows |->
            RowPoint(df, pos, measurement, time_col, Or(tag_cols, << >>), cols)]

\* what write_df makes of the DataFrame once the credentials are resolved:
\* df[time_col] raises (159), ts.iloc[i] raises (165), there is no point
\* (181), or there are points to write
DfKind(df, time_col) ==
    IF ~HasColumn(df, time_col) THEN "no_time_col"
    ELSE IF df.rows = << >> THEN "empty"
    ELSE IF ~LabelsInRange(df) THEN "bad_index"
    ELSE "rows"

\* s.split(sep): the pieces between the separators
RECURSIVE Split(_, _)
Split(s, sep) ==
    IF Find(s, sep) = 0 THEN << s >>
    ELSE << SplitHead(s, sep) >> \o Split(SplitTail(s, sep), sep)

\* api.py 130-131, 135: the path and the name=value pairs of a uri
ParseKey(uri) ==
    LET key == SplitTail(uri, "://")
        path == IF Find(key, "?") = 0 THEN key ELSE SplitHead(key, "?")
        query == IF Find(key, "?") = 0 THEN << >> ELSE SplitTail(key, "?")
        pieces == SelectSeq(Split(query, "&"), LAMBDA x : Find(x, "=") = 2)
    IN  [path |-> path,
         query |-> [k \in DOMAIN pieces |->
                       << pieces[k][1], SplitTail(pieces[k], "=") >>]]

\* api.py 130-146: what write_df reads from a uri whose path has a "/"
ParseAddress(uri) ==
    LET key == ParseKey(uri)
        q == ParseQs(key.query)
    IN  [bucket |-> SplitHead(key.path, "/"),
         measurement |-> SplitTail(key.path, "/"),
         env |-> EnvOf(q),
         url |-> First(q, "url", None),
         org |-> First(q, "org", None),
         token |-> First(q, "token", None),
         token_secret |-> First(q, "token_secret", None)]

\* the uri was rejected before it was read (api.py 132-133)
NoAddress ==
    [bucket |-> None, measurement |-> None, env |-> None, url |-> None, org |-> None,
     token |-> None, token_secret |-> None]

\* api.py 115-183: write_df(uri, df, time_col=, tag_cols=, field_cols=)
WriteDfFrame(uri, df, time_col, tag_cols, field_cols, osenv, backend_ok) ==
    LET key == ParseKey(uri)
        w == WriteDf(key, osenv, DfKind(df, time_col), backend_ok)
        address == IF HasSlash(key.path) THEN ParseAddress(uri) ELSE NoAddress
    IN  [address |-> address]
        @@ (IF w.backend = "write"
            THEN [w EXCEPT !.points = Points(df, SplitTail(key.path, "/"), time_col,
                                             tag_cols, field_cols)]
            ELSE w)

----------------------------------------------------------------------------
(* InfluxTarget (targetstore.py) and InfluxStoreyTarget (storey_target.py): *)
(* the columns they resolve and the DataFrame they hand to write_df.  A     *)
(* column name that is None or "" is "".                                    *)

NoAttributes == [a \in {} |-> None]

\* one attribute when the value is truthy
Attribute(name, value) == IF Truthy(value) THEN name :> value ELSE NoAttributes

\* targetstore.py 40-87: InfluxTarget(path=, attributes=, env=, tag_cols=, field_cols=)
InfluxTarget(path, attributes, env, tag_cols, field_cols) ==
    [path |-> path,
     attributes |-> Attribute("field_cols", field_cols) @@ Attribute("tag_cols", tag_cols)
                    @@ attributes @@ ("env" :> env)]

\* targetstore.py 119-131: the uri given to write_df
TargetUri(target) ==
    LET attributes == target.attributes
        Param(name) == IF name \in DOMAIN attributes
                       THEN << "&", name, "=" >> \o Str(attributes[name])
                       ELSE << >>
    IN  << "influx", "://" >> \o target.path
        \o << "?", "env", "=" >> \o Str(attributes["env"])
        \o Param("url") \o Param("org") \o Param("token") \o Param("token_secret")

\* targetstore.py 282-288 and storey_target.py 144-150
ResolveTimeColumn(time_col, timestamp_key) ==
    IF time_col # "" THEN time_col
    ELSE IF timestamp_key # "" THEN timestamp_key ELSE "time"

\* targetstore.py 290-301: key_column is None or a list of names (a single
\* name stands for the list of it)
TargetResolveTagColumns(target, key_column) ==
    IF "tag_cols" \in DOMAIN target.attributes THEN target.attributes["tag_cols"]
    ELSE IF Truthy(key_column) THEN key_column
    ELSE << >>

\* targetstore.py 303-317
TargetResolveFieldColumns(target, df, time_col, tag_cols) ==
    IF "field_cols" \in DOMAIN target.attributes THEN target.attributes["field_cols"]
    ELSE LET field_cols == InferredFieldCols(df, time_col, tag_cols)
         IN  IF field_cols # << >> THEN field_cols ELSE None

\* storey_target.py 160-174
StoreyResolveFieldColumns(target, df, time_col, tag_cols) ==
    IF Truthy(target.field_cols) THEN target.field_cols
    ELSE LET field_cols == InferredFieldCols(df, time_col, tag_cols)
         IN  IF field_cols # << >> THEN field_cols ELSE None

\* what a target adds to the outcome of write_df
Written_By(op, w, uri, field_cols, returned, raised, log) ==
    [op |-> op, uri |-> uri, field_cols |-> field_cols, returned |-> returned,
     raised |-> raised, wraps |-> w.raised, write_df |-> w.op, log |-> log] @@ w

\* targetstore.py 89-155: InfluxTarget.write_dataframe(df, key_column, timestamp_key);
\* a count that is not returned is -1
WriteDataframe(target, df, spark, key_column, timestamp_key, osenv, backend_ok) ==
    IF spark
    THEN Written_By("write_dataframe", Raised("none", "spark", "none", << >>, Unresolved),
                    << >>, None, -1, "MLRunRuntimeError", << >>)
    ELSE IF ~Truthy(target.path)
    THEN Written_By("write_dataframe", Raised("none", "no_path", "none", << >>, Unresolved),
                    << >>, None, -1, "MLRunInvalidArgumentError", << >>)
    ELSE LET uri == TargetUri(target)
             time_col == ResolveTimeColumn(
                             IF "time_col" \in DOMAIN target.attributes
                             THEN target.attributes["time_col"] ELSE "",
                             timestamp_key)
             tag_cols == TargetResolveTagColumns(target, key_column)
             field_cols == TargetResolveFieldColumns(target, df, time_col, tag_cols)
             w == WriteDfFrame(uri, df, time_col, tag_cols, field_cols, osenv, backend_ok)
         IN  IF w.raised = "none"
             THEN Written_By("write_dataframe", w, uri, field_cols, Len(df.rows), "none",
                     << [level |-> "info",
                         msg |-> << "Successfully wrote ", ToString(Len(df.rows)),
                                    " rows to InfluxDB: " >> \o uri] >>)
             ELSE Written_By("write_dataframe", w, uri, field_cols, -1, "MLRunRuntimeError",
                     << [level |-> "error",
                         msg |-> << "Failed to write DataFrame to InfluxDB: " >> \o w.msg] >>)

\* storey_target.py 16-68: InfluxStoreyTarget(target_path, env=, tag_cols=, field_cols=,
\* url=, org=, token=, token_secret=), with no time_col, timestamp_key or
\* key_columns; overrides holds the connection arguments that were given
InfluxStoreyTarget(target_path, env, tag_cols, field_cols, overrides) ==
    [target_path |-> target_path, env |-> env, tag_cols |-> Or(tag_cols, << >>),
     field_cols |-> field_cols,
     connection_overrides |->
         [name \in {n \in DOMAIN overrides : Truthy(overrides[n])} |-> overrides[name]]]

\* storey_target.py 107-119: the uri given to write_df; the overrides were
\* inserted in the order url, org, token, token_secret
StoreyUri(target) ==
    LET overrides == target.connection_overrides
        Param(name) == IF name \in DOMAIN overrides /\ Truthy(overrides[name])
                       THEN << "&", name, "=" >> \o Str(overrides[name])
                       ELSE << >>
    IN  << "influx", "://" >> \o target.target_path
        \o << "?", "env", "=" >> \o Str(target.env)
        \o Param("url") \o Param("org") \o Param("token") \o Param("token_secret")

\* storey_target.py 107-142: InfluxStoreyTarget._write_dataframe_to_influx(df)
StoreyWriteDataframe(target, df, osenv, backend_ok) ==
    LET uri == StoreyUri(target)
        time_col == ResolveTimeColumn("", "")
        tag_cols == target.tag_cols
        field_cols == StoreyResolveFieldColumns(target, df, time_col, tag_cols)
        w == WriteDfFrame(uri, df, time_col, tag_cols, field_cols, osenv, backend_ok)
    IN  IF w.raised = "none"
        THEN Written_By("_write_dataframe_to_influx", w, uri, field_cols, -1, "none",
                << [level |-> "debug",
                    msg |-> << "Wrote ", ToString(Len(df.rows)), " rows to InfluxDB: " >>
                            \o target.target_path] >>)
        ELSE Written_By("_write_dataframe_to_influx", w, uri, field_cols, -1, w.raised,
                << [level |-> "error",
                    msg |-> << "Failed to write to InfluxDB: " >> \o w.msg] >>)

----------------------------------------------------------------------------
(* The writes as a state machine: one write_df, InfluxTarget.write_dataframe *)
(* or InfluxStoreyTarget._write_dataframe_to_influx per behaviour.          *)

MaxRows == 2

Cell(py, num, text) == [py |-> py, num |-> num, text |-> text]

\* the non-time values a row can hold: None and NaN, the builtin numbers, the
\* numpy.float64 of a float column, texts that are numbers or not, an object
FieldValues ==
    {Cell("NoneType", 0, "None"), Cell("nan", 0, "nan"), Cell("bool", 100, "True"),
     Cell("int", 300, "3"), Cell("float", 314, "3.14"), Cell("numpy.float64", 250, "2.5"),
     Cell("str", 0, "3.14"), Cell("str", 0, "7"), Cell("str", 0, "abc"),
     Cell("dict", 0, "{}")}

\* a DataFrame of the given columns with the default index 0..n-1, each row
\* holding the columns' cells of a row over all column names
Frame(columns, rows) ==
    [columns |-> columns, index |-> [p \in DOMAIN rows |-> p - 1],
     rows |-> [p \in DOMAIN rows |->
                  [c \in {columns[k] : k \in DOMAIN columns} |-> rows[p][c]]]]

ColumnNames == {"time", "host", "value", "extra"}

\* row p when nothing else is said: its time is p
PlainRow(p) ==
    [c \in ColumnNames |->
        CASE c = "time" -> Cell("Timestamp", p, ToString(p))
          [] c = "host" -> Cell("str", 0, "a")
          [] OTHER -> Cell("float", 100 * p, ToString(p))]

\* one row with every kind of value, the tag being null or not
ValueFrames ==
    {Frame(<< "time", "host", "value" >>,
           << [PlainRow(1) EXCEPT !["value"] = v, !["host"] = h] >>) :
        v \in FieldValues, h \in {Cell("str", 0, "a"), Cell("NoneType", 0, "None")}}

\* a DataFrame whose columns are all int64, the time being epoch nanoseconds:
\* df.iterrows() yields its rows as int64 Series, so row[c] is a numpy.int64
Int64Frame ==
    Frame(<< "time", "value" >>,
          << [PlainRow(1) EXCEPT !["time"] = Cell("numpy.int64", 1, "1"),
                                 !["value"] = Cell("numpy.int64", 300, "3")] >>)

\* up to MaxRows rows under every row index with labels in 0..MaxRows
IndexFrames ==
    UNION {{[Frame(<< "time", "host", "value" >>, [p \in 1..n |-> PlainRow(p)])
                EXCEPT !.index = index] :
               index \in [1..n -> 0..MaxRows]} : n \in 1..MaxRows}

\* no row or one, under several sets of columns
ColumnFrames ==
    {Frame(columns, [p \in 1..n |-> PlainRow(p)]) :
        n \in 0..1,
        columns \in {<< "time" >>, << "time", "host" >>, << "time", "host", "value" >>,
                     << "time", "value", "extra" >>, << "host", "value" >>}}

Frames == ValueFrames \cup {Int64Frame} \cup IndexFrames \cup ColumnFrames

\* a list of column names a caller may configure, None for none
ColumnLists(names) == {None, << >>, names}

\* connection overrides a caller may configure: all four plain, or one that
\* holds "&" or "+", is empty or is None
OverrideNames == {"url", "org", "token", "token_secret"}

PlainOverrides ==
    ("url" :> InlineUrl) @@ ("org" :> InlineOrg) @@ ("token" :> InlineToken)
    @@ ("token_secret" :> SecretName)

AddressOverrides ==
    {PlainOverrides}
    \cup {name :> value :
            name \in OverrideNames,
            value \in {<< "a", "&", "b" >>, << "a", "+", "b" >>, << >>, None}}

InfluxTargets ==
    {InfluxTarget(path, Attribute("token", token) @@ Attribute("field_cols", attr_field_cols),
                  env, tag_cols, field_cols) :
        path \in {<< "bucket", "/", "cpu" >>, << >>},
        token \in {None, InlineToken},
        env \in {<< "DEV" >>, << "PROD" >>},
        tag_cols \in {None, << "host" >>},
        field_cols \in ColumnLists(<< "value" >>),
        attr_field_cols \in {None, << "value", "other" >>}}
    \cup {InfluxTarget(<< "bucket", "/", "cpu" >>, "field_cols" :> << >>,
                       << "DEV" >>, << "host" >>, None)}
    \cup {InfluxTarget(<< "bucket", "/", "cpu" >>, overrides, << "DEV" >>, None, None) :
            overrides \in AddressOverrides}
    \cup {InfluxTarget(<< "bucket", "/", "cpu", "/", "load" >>, PlainOverrides,
                       << "dev" >>, None, None)}

InfluxStoreyTargets ==
    {InfluxStoreyTarget(<< "bucket", "/", "cpu" >>, env, tag_cols, field_cols,
                        "token" :> token) :
        env \in {<< "DEV" >>, << "PROD" >>},
        tag_cols \in {None, << "host" >>},
        field_cols \in ColumnLists(<< "value" >>),
        token \in {None, InlineToken}}
    \cup {InfluxStoreyTarget(<< "bucket", "/", "cpu" >>, << "DEV" >>, None, None, overrides) :
            overrides \in AddressOverrides}
    \cup {InfluxStoreyTarget(<< "bucket", "/", "cpu", "/", "load" >>, << "dev" >>, None, None,
                             PlainOverrides)}

WriteUris ==
    {<< "influx", "://", "bucket", "/", "cpu" >>,
     << "influx", "://", "bucket", "/", "cpu", "?", "env", "=", "prod" >>}

\* the DEV variables are set, the PROD variables are not
InitWrite ==
    /\ environ = Environ(Fields, FALSE, FALSE, FALSE)
    /\ req = IdleReq
    /\ out = IdleOut
    /\ IdleTargets

\* write_df(uri, df, time_col="time", tag_cols=, field_cols=)
FrameWrite ==
    /\ out = IdleOut
    /\ \E uri \in WriteUris, df \in Frames, tag_cols \in {None, << "host" >>},
          field_cols \in ColumnLists(<< "value" >>), backend_ok \in BOOLEAN :
          /\ req' = [op |-> "write_df", df |-> df, tag_cols |-> tag_cols,
                     field_cols |-> field_cols, backend_ok |-> backend_ok]
          /\ out' = WriteDfFrame(uri, df, "time", tag_cols, field_cols, environ, backend_ok)
    /\ UNCHANGED << environ, targetVars >>

\* InfluxTarget(...).write_dataframe(df, key_column=, timestamp_key=None)
TargetWrite ==
    /\ out = IdleOut
    /\ \E target \in InfluxTargets, df \in Frames, spark \in BOOLEAN,
          key_column \in {None, << "host" >>}, backend_ok \in BOOLEAN :
          /\ req' = [op |-> "write_dataframe", target |-> target, df |-> df,
                     spark |-> spark, key_column |-> key_column,
                     backend_ok |-> backend_ok]
          /\ out' = WriteDataframe(target, df, spark, key_column, "", environ, backend_ok)
    /\ UNCHANGED << environ, targetVars >>

\* InfluxStoreyTarget(...)._write_dataframe_to_influx(df)
StoreyWrite ==
    /\ out = IdleOut
    /\ \E target \in InfluxStoreyTargets, df \in Frames, backend_ok \in BOOLEAN :
          /\ req' = [op |-> "_write_dataframe_to_influx", target |-> target, df |-> df,
                     backend_ok |-> backend_ok]
          /\ out' = StoreyWriteDataframe(target, df, environ, backend_ok)
    /\ UNCHANGED << environ, targetVars >>

NextWrite == FrameWrite \/ TargetWrite \/ StoreyWrite

SpecWrite == InitWrite /\ [][NextWrite]_vars

----------------------------------------------------------------------------
(* Two workers that share one InfluxBatchStoreyTarget and call it without   *)
(* serialization: the steps of __call__ and _flush_batch interleave.  Every *)
(* event is a dict; the elapsed time a worker reads is any.                 *)

Workers == {1, 2}

\* a table of the first buffered row only
FlushTable_FirstRow(events) == SubSeq(events, 1, 1)

\* storey_target.py 233: pd.DataFrame(self.batch_events), a copy of the buffer
FlushTable(events) == events

\* the other worker's _flush_batch has built its table and not yet cleared
\* the buffer
FlushInProgress(w) ==
    \E v \in Workers \ {w} : workers.pc[v] \in {"write", "clear_ok", "clear_error"}

InitWorkers ==
    /\ cls = "InfluxBatchStoreyTarget"
    /\ batch_size \in 1..MaxBatch
    /\ flush_interval = MaxInterval
    /\ batch_events = << >>
    /\ clock = 0 /\ last_flush_time = 0
    /\ calls = 0
    /\ flushes = << >>
    /\ attempts = [r \in 1..MaxCalls |-> 0]
    /\ alive = TRUE
    /\ ret = InitRet
    /\ workers = [pc |-> [w \in Workers |-> "idle"], df |-> [w \in Workers |-> << >>],
                  late |-> {}]
    /\ environ = IdleEnviron
    /\ req = IdleReq
    /\ out = IdleOut

\* 202-205: a worker enters __call__ and appends its row; `late` remembers the
\* rows appended while the other worker's flush is in progress
WorkerAppend ==
    /\ calls < MaxCalls
    /\ \E w \in Workers :
          /\ workers.pc[w] = "idle"
          /\ workers' = [workers EXCEPT
                            !.pc[w] = "appended",
                            !.late = IF FlushInProgress(w) THEN @ \cup {calls + 1} ELSE @]
    /\ batch_events' = Append(batch_events, calls + 1)
    /\ calls' = calls + 1
    /\ UNCHANGED << cls, batch_size, flush_interval, last_flush_time, clock, flushes,
                    attempts, alive, ret, storeVars >>

\* 210-220: the worker reads the clock and the buffer's length and flushes or returns
WorkerDecide ==
    /\ \E w \in Workers, elapsed \in {0, flush_interval} :
          /\ workers.pc[w] = "appended"
          /\ workers' = [workers EXCEPT !.pc[w] =
                            IF ShouldFlush(Len(batch_events), batch_size, elapsed,
                                           flush_interval)
                            THEN "flush" ELSE "idle"]
    /\ UNCHANGED << cls, batch_size, flush_interval, batch_events, last_flush_time,
                    clock, calls, flushes, attempts, alive, ret, storeVars >>

\* 228-233: _flush_batch returns on an empty buffer, else builds its table
WorkerBuild ==
    /\ \E w \in Workers :
          /\ workers.pc[w] = "flush"
          /\ workers' = IF batch_events = << >>
                        THEN [workers EXCEPT !.pc[w] = "idle"]
                        ELSE [workers EXCEPT !.pc[w] = "write",
                                             !.df[w] = FlushTable(batch_events)]
    /\ UNCHANGED << cls, batch_size, flush_interval, batch_events, last_flush_time,
                    clock, calls, flushes, attempts, alive, ret, storeVars >>

\* 236: the write of the table returns or raises
WorkerWrite ==
    /\ \E w \in Workers, outcome \in {"ok", "write_error"} :
          /\ workers.pc[w] = "write"
          /\ attempts' = [r \in DOMAIN attempts |->
                             IF \E k \in DOMAIN workers.df[w] : workers.df[w][k] = r
                             THEN attempts[r] + 1 ELSE attempts[r]]
          /\ workers' = [workers EXCEPT !.pc[w] =
                            IF outcome = "ok" THEN "clear_ok" ELSE "clear_error"]
    /\ UNCHANGED << cls, batch_size, flush_interval, batch_events, last_flush_time,
                    clock, calls, flushes, alive, ret, storeVars >>

\* 241-242, 247-248 and 220-224: the buffer is cleared and __call__ returns
WorkerClear ==
    /\ \E w \in Workers :
          /\ workers.pc[w] \in {"clear_ok", "clear_error"}
          /\ last_flush_time' = IF workers.pc[w] = "clear_ok" THEN clock
                                ELSE last_flush_time
          /\ workers' = [workers EXCEPT !.pc[w] = "idle", !.df[w] = << >>]
    /\ batch_events' = << >>
    /\ UNCHANGED << cls, batch_size, flush_interval, clock, calls, flushes, attempts,
                    alive, ret, storeVars >>

NextWorkers == WorkerAppend \/ WorkerDecide \/ WorkerBuild \/ WorkerWrite \/ WorkerClear

SpecWorkers == InitWorkers /\ [][NextWorkers]_vars

----------------------------------------------------------------------------
(* Properties of the storey targets (checked under Spec) *)

\* a step in which the batch target's __call__ buffers the event it is given
AcceptedCall == calls' = calls + 1 /\ cls = "InfluxBatchStoreyTarget" /\ ret'.appended

\* the row a step's __call__ appends
NewRow == calls + 1

\* C1 (as stated): from an empty buffer the first batch_size - 1 dict events
\* trigger no flush and the batch_size-th triggers exactly one flush carrying
\* all buffered rows, after which the buffer is empty -- whatever the time.
C1_FlushOnlyAtBatchSize ==
    [][AcceptedCall =>
          /\ Len(batch_events) + 1 < batch_size =>
                flushes' = << >> /\ batch_events' = Append(batch_events, NewRow)
          /\ Len(batch_events) + 1 = batch_size =>
                /\ Len(flushes') = 1
                /\ flushes'[1].rows = Append(batch_events, NewRow)
                /\ batch_events' = << >>]_vars

\* C1 (amended): the same, for the events at whose arrival less than
\* flush_interval has elapsed since last_flush_time; and the buffer never holds
\* batch_size rows between two calls, so the batch_size-th accepted event after
\* an empty buffer is the one that finds batch_size - 1 rows buffered.
C1_FlushAtBatchSizeWithinInterval ==
    /\ [](Len(batch_events) < batch_size)
    /\ [][(AcceptedCall /\ clock - last_flush_time < flush_interval) =>
             /\ Len(batch_events) + 1 < batch_size =>
                   flushes' = << >> /\ batch_events' = Append(batch_events, NewRow)
             /\ Len(batch_events) + 1 = batch_size =>
                   /\ Len(flushes') = 1
                   /\ flushes'[1].rows = Append(batch_events, NewRow)
                   /\ flushes'[1].outcome # "build_error" => flushes'[1].wrote
                   /\ batch_events' = << >>]_vars

\* a size-triggered flush of two or more rows, before flush_interval has elapsed
C1_Witness ==
    /\ ret.op = "batch_call" /\ ret.appended
    /\ batch_size >= 2
    /\ clock < flush_interval
    /\ Len(flushes) = 1 /\ Len(flushes[1].rows) = batch_size /\ flushes[1].wrote
    /\ batch_events = << >>

\* C2: when _flush_batch runs on a non-empty buffer and building the table or
\* writing it fails, batch_events is empty when _flush_batch exits.
C2_FailedFlushClearsBuffer ==
    \A i \in DOMAIN flushes :
        flushes[i].outcome # "ok" => batch_events = << >>

\* a failed write of two buffered rows, the buffer empty after it
C2_Witness ==
    /\ Len(flushes) = 1
    /\ flushes[1].outcome = "write_error"
    /\ Len(flushes[1].rows) >= 2
    /\ batch_events = << >>

\* C3 (as stated): at the moment the write call of a flush starts, batch_events
\* is already empty.
C3_BufferEmptyWhenWriteStarts ==
    \A i \in DOMAIN flushes :
        flushes[i].wrote => flushes[i].buffered = << >>

\* C3 (amended): the table handed to the write is a copy of the buffer; when
\* the write call starts batch_events still holds exactly the rows being
\* written, and it is empty once _flush_batch has exited, whether the write
\* succeeded or failed.
C3_BufferClearedAfterWrite ==
    \A i \in DOMAIN flushes :
        /\ flushes[i].rows # << >>
        /\ flushes[i].wrote => flushes[i].buffered = flushes[i].rows
        /\ batch_events = << >>

\* a write that started while the buffer still held its two rows
C3_Witness ==
    /\ Len(flushes) = 1
    /\ flushes[1].wrote
    /\ Len(flushes[1].buffered) >= 2
    /\ batch_events = << >>

\* C4: over any sequence of events, flushes and teardown, no row is handed to
\* a write attempt more than once.
C4_NoRowWrittenTwice == \A r \in DOMAIN attempts : attempts[r] <= 1

\* teardown after a failed write: the failed rows were tried once and are gone,
\* and an earlier row was tried once too
C4_Witness ==
    /\ ~alive
    /\ Len(flushes) = 1 /\ flushes[1].outcome = "write_error"
    /\ \E r \in DOMAIN attempts :
          /\ attempts[r] = 1
          /\ \A j \in DOMAIN flushes[1].rows : flushes[1].rows[j] # r
    /\ \A j \in DOMAIN flushes[1].rows : attempts[flushes[1].rows[j]] = 1
    /\ batch_events = << >>

\* C5: __call__ of either target never raises and returns the event it was
\* given, for every event type, empty or not, and every outcome of the write.
C5_CallReturnsEvent ==
    ret.op \in {"batch_call", "storey_call"} =>
        /\ ~ret.raised
        /\ ret.returned = ret.event
        /\ ret.event.id = calls

\* a per-event write that failed: the error is logged and the event returned
C5_Witness ==
    /\ ret.op = "storey_call"
    /\ ret.wrote /\ ret.logged = "error"
    /\ ret.returned = ret.event /\ ~ret.raised

\* C6: __del__ runs one flush of all buffered rows, never raises, and leaves
\* the buffer empty whether the flush succeeded or failed.
C6_TeardownFlushesOnce ==
    [][(alive /\ ~alive') =>
          /\ ~ret'.raised
          /\ batch_events' = << >>
          /\ batch_events = << >> => flushes' = << >>
          /\ batch_events # << >> =>
                Len(flushes') = 1 /\ flushes'[1].rows = batch_events]_vars

\* a teardown whose flush of two rows failed
C6_Witness ==
    /\ ~alive /\ ret.op = "del" /\ ~ret.raised
    /\ Len(flushes) = 1 /\ flushes[1].outcome = "write_error"
    /\ Len(flushes[1].rows) >= 2
    /\ batch_events = << >>

\* C7: after an accepted event is appended, __call__ flushes if and only if
\* the buffer has reached batch_size or flush_interval has elapsed since
\* last_flush_time.
C7_FlushIffSizeOrTime ==
    [][AcceptedCall =>
          (flushes' # << >> <=>
              \/ Len(batch_events) + 1 >= batch_size
              \/ clock - last_flush_time >= flush_interval)]_vars

\* a time-triggered flush of fewer than batch_size rows
C7_Witness ==
    /\ ret.op = "batch_call" /\ ret.appended
    /\ flush_interval > 0
    /\ Len(flushes) = 1
    /\ Len(flushes[1].rows) < batch_size

----------------------------------------------------------------------------
(* Properties of the store operations (checked under SpecStore) *)

\* the operation got past the parsing of its key
Resolved == out.op # "none" /\ out.site # "invalid_key"

\* the fields of the connection config that resolved to None or ""
UnsetFields ==
    {f \in Fields :
        \/ f = "URL" /\ ~Truthy(out.resolved.url)
        \/ f = "ORG" /\ ~Truthy(out.resolved.org)
        \/ f = "TOKEN" /\ ~Truthy(out.resolved.token)}

\* C8: get, put and write_df create no backend client and issue no query or
\* write unless url, org and token all resolved to non-empty values; when one
\* of them is empty the operation fails before any backend interaction.
C8_NoBackendWithoutCredentials ==
    out.op # "none" =>
        /\ out.backend # "none" => out.client.created
        /\ out.client.created =>
              /\ Truthy(out.client.url)
              /\ Truthy(out.client.org)
              /\ Truthy(out.client.token)
              /\ UnsetFields = {}
        /\ (Resolved /\ UnsetFields # {}) =>
              out.raised # "none" /\ ~out.client.created /\ out.backend = "none"

\* write_df with url and org resolved and no token: it raises before it
\* creates a client
C8_Witness ==
    /\ out.op = "write_df" /\ out.site = "missing_config"
    /\ req.payload = "rows"
    /\ UnsetFields = {"TOKEN"}
    /\ ~out.client.created /\ out.backend = "none"

\* the message has the environment's name in it
NamesEnv(msg, env) == \E i \in DOMAIN msg : << msg[i] >> = env

\* the message shows `field`'s variable with no value (None or "")
ShownUnset(msg, field) ==
    \E i \in 1..(Len(msg) - 2) :
        /\ msg[i] = field
        /\ msg[i + 1] = " : "
        /\ msg[i + 2] \in {"None", ", ", " and "}

\* The fields a reader of the message can tell are unset.  A message that
\* shows the values of URL and ORG names those of the two it shows empty, and
\* names TOKEN when it shows both set (one of the three is unset); a message
\* that only lists url/org/token names all three.
NamedUnset(msg) ==
    IF \E i \in DOMAIN msg : msg[i] = " : "
    THEN LET shown == {f \in {"URL", "ORG"} : ShownUnset(msg, f)}
         IN  IF shown = {} THEN {"TOKEN"} ELSE shown
    ELSE IF \E i \in DOMAIN msg : msg[i] = " (url/org/token)."
    THEN Fields
    ELSE {}

\* C9: when url, org or token resolves to empty, get, put and write_df raise
\* an error whose message names the environment and names exactly the fields
\* that are unset.
C9_MissingCredentialsNamesFields ==
    (Resolved /\ UnsetFields # {}) =>
        /\ out.site = "missing_config"
        /\ NamesEnv(out.msg, out.resolved.env)
        /\ NamedUnset(out.msg) = UnsetFields

\* the first non-blank value of parameter `name` in the request's query
GivenValues(name) ==
    SelectSeq(req.key.query, LAMBDA p : p[1] = name /\ p[2] # << >>)

Given(name) == GivenValues(name) # << >>

Value(name) == GivenValues(name)[1][2]

\* what the lookup of a secret or variable name gives: the environment's
\* value when it is non-empty, else (get only) the run context's secret
Lookup(name) ==
    IF name \in DOMAIN environ /\ environ[name] # None /\ environ[name] # << >>
    THEN environ[name]
    ELSE IF req.ctx.kind = "has" /\ name \in req.ctx.names
    THEN req.ctx.value
    ELSE None

\* the upper-cased env parameter, DEV by default
ExpectedEnv == IF Given("env") THEN Upper(Value("env")) ELSE << "DEV" >>

\* C10: url and org are the inline override when given, else the variable
\* INFLUX_<ENV>_URL / _ORG with ENV the upper-cased env parameter (default
\* DEV); the token is the inline token when given, else the lookup of the name
\* token_secret when given, else the lookup of INFLUX_<ENV>_TOKEN.
C10_CredentialPrecedence ==
    Resolved =>
        /\ out.resolved.env = ExpectedEnv
        /\ out.resolved.url =
              IF Given("url") THEN Value("url")
              ELSE environ[<< "INFLUX_" >> \o ExpectedEnv \o << "_", "URL" >>]
        /\ out.resolved.org =
              IF Given("org") THEN Value("org")
              ELSE environ[<< "INFLUX_" >> \o ExpectedEnv \o << "_", "ORG" >>]
        /\ out.resolved.token =
              IF Given("token") THEN Value("token")
              ELSE IF Given("token_secret") THEN Lookup(Value("token_secret"))
              ELSE Lookup(<< "INFLUX_" >> \o ExpectedEnv \o << "_", "TOKEN" >>)

\* token=X together with token_secret=Y, Y being a secret the environment
\* holds: the write goes out with X
C10_Witness ==
    /\ out.op = "write_df" /\ out.backend = "write"
    /\ Given("token") /\ Given("token_secret") /\ Given("env")
    /\ environ[Value("token_secret")] = SecretToken
    /\ out.client.token = InlineToken
    /\ out.resolved.env = << "PROD" >>

----------------------------------------------------------------------------
(* Properties of the store operations, continued (checked under SpecStore) *)

\* whether a text contains a value
Contains(text, v) ==
    \E i \in 1..(Len(text) - Len(v) + 1) : SubSeq(text, i, i + Len(v) - 1) = v

\* C11 (as stated): the token an operation resolved, however it was supplied,
\* is neither in the message of the error the operation raises nor in the
\* address of the data item it returns.
C11_TokenNeverExposed ==
    (out.op # "none" /\ Truthy(out.resolved.token)) =>
        /\ ~Contains(out.msg, out.resolved.token)
        /\ ~Contains(Str(out.item), out.resolved.token)

\* the path has a first "/" with a non-empty bucket before it and a non-empty
\* measurement after it
WellFormedPath(path) ==
    \E i \in DOMAIN path :
        /\ path[i] = "/"
        /\ \A j \in 1..(i - 1) : path[j] # "/"
        /\ 1 < i /\ i < Len(path)

\* C12 (as stated): parsing the key fails with the invalid-key error exactly
\* when the path has no "/" or its bucket or its measurement is empty.
C12_MalformedKeyRejected ==
    out.op # "none" => (out.site = "invalid_key" <=> ~WellFormedPath(req.key.path))

----------------------------------------------------------------------------
(* Properties of InfluxStore.get's query and table (checked under SpecRead) *)

\* where a part occurs in a text
Positions(text, part) == {i \in DOMAIN text : text[i] = part}

\* the part that follows position i, as a text of n parts
After(text, i, n) == SubSeq(text, i + 1, i + n)

\* the non-blank values of a parameter of the request, in the order given
Requested(name) ==
    LET sel == SelectSeq(req.key.query, LAMBDA p : p[1] = name /\ p[2] # << >>)
    IN  [i \in DOMAIN sel |-> sel[i][2]]

\* the requested tags that contain ":", in the order given
ColonTags == SelectSeq(Requested("tag"), LAMBDA t : \E j \in DOMAIN t : t[j] = ":")

\* the text key == "value") of a tag, split at its first ":"
ExpectedComparison(tag) ==
    LET j == CHOOSE j \in DOMAIN tag :
                 tag[j] = ":" /\ \A h \in 1..(j - 1) : tag[h] # ":"
    IN  SubSeq(tag, 1, j - 1) \o << " == \"" >> \o SubSeq(tag, j + 1, Len(tag))
        \o << "\")" >>

\* C13: the query get sends has one range clause and one measurement clause
\* naming the key's measurement, a field clause exactly when a field filter is
\* given, and one tag clause per tag containing ":" -- split at its first ":",
\* in the order of the tags; tags without ":" add nothing and raise nothing.
C13_QueryClauses ==
    out.op = "get" =>
        LET query == out.query
            ranges == Positions(query, "|> range(start: ")
            measurements == Positions(query, "|> filter(fn: (r) => r._measurement == \"")
            fields == Positions(query, " |> filter(fn: (r) => r._field == \"")
            tags == Positions(query, " |> filter(fn: (r) => r.")
            path == req.key.path
            slash == CHOOSE i \in DOMAIN path :
                         path[i] = "/" /\ \A h \in 1..(i - 1) : path[h] # "/"
        IN  /\ Cardinality(ranges) = 1
            /\ Cardinality(measurements) = 1
            /\ \A i \in measurements :
                   After(query, i, Len(path) - slash + 1)
                       = SubSeq(path, slash + 1, Len(path)) \o << "\")" >>
            /\ Cardinality(fields) = (IF Requested("field") = << >> THEN 0 ELSE 1)
            /\ \A i \in fields :
                   After(query, i, Len(Requested("field")[1]) + 1)
                       = Requested("field")[1] \o << "\")" >>
            /\ Cardinality(tags) = Len(ColonTags)
            /\ \A i \in tags :
                   LET k == Cardinality({h \in tags : h <= i})
                       expected == ExpectedComparison(ColonTags[k])
                   IN  After(query, i, Len(expected)) = expected
            /\ \A i \in ranges, j \in measurements, f \in fields, t \in tags :
                   i < j /\ j < f /\ f < t
            /\ out.backend = "query"

\* a query for a key with a field filter, a tag without ":" and a tag with two
C13_Witness ==
    /\ out.op = "get" /\ out.raised = "none"
    /\ Requested("field") # << >>
    /\ Requested("tag") = << << "host" >>, << "k", ":", "v", ":", "w" >> >>
    /\ Cardinality(Positions(out.query, " |> filter(fn: (r) => r.")) = 1

\* the number of records in the tables before table t
RecordsBefore(tables, t) ==
    Cardinality({p \in (1..(t - 1)) \X (1..MaxRecords) : p[2] <= Len(tables[p[1]])})

\* C14: the table get returns has the columns time, field, value, measurement
\* and tags and one row per record of the result, in the order of the tables
\* and of the records in each; a row's tags are the record's values without
\* the four reserved names; an empty result gives a table with no row.
C14_OneRowPerRecord ==
    (out.op = "get" /\ out.backend = "query" /\ out.raised = "none") =>
        LET tables == req.tables
            rows == out.df.rows
        IN  /\ out.item # None
            /\ out.df.columns = << "time", "field", "value", "measurement", "tags" >>
            /\ Len(rows) = RecordsBefore(tables, Len(tables) + 1)
            /\ \A t \in DOMAIN tables : \A k \in DOMAIN tables[t] :
                   LET record == tables[t][k]
                       row == rows[RecordsBefore(tables, t) + k]
                   IN  /\ row.time = record["_time"]
                       /\ row.field = record["_field"]
                       /\ row.value = record["_value"]
                       /\ row.measurement = record["_measurement"]
                       /\ DOMAIN row.tags
                              = DOMAIN record \ {"_time", "_field", "_value", "_measurement"}
                       /\ \A a \in DOMAIN row.tags : row.tags[a] = record[a]

\* a result of two tables, the first with two different records
C14_Witness ==
    /\ out.op = "get" /\ out.raised = "none"
    /\ Len(req.tables) = 2
    /\ Len(req.tables[1]) = 2 /\ req.tables[1][1] # req.tables[1][2]
    /\ Len(req.tables[2]) = 1
    /\ Len(out.df.rows) = 3

----------------------------------------------------------------------------
(* Properties of the writes (checked under SpecWrite) *)

\* a target resolved its columns and called write_df
TargetWrote ==
    /\ out.op \in {"write_dataframe", "_write_dataframe_to_influx"}
    /\ out.write_df = "write_df"

\* the tag columns the target of the request uses
RequestTagCols ==
    IF out.op = "_write_dataframe_to_influx" THEN req.target.tag_cols
    ELSE IF "tag_cols" \in DOMAIN req.target.attributes
         THEN req.target.attributes["tag_cols"]
         ELSE IF req.key_column # None THEN req.key_column ELSE << >>

\* the request's columns that are neither "time" nor a tag column, in order
RequestOtherCols ==
    SelectSeq(req.df.columns,
              LAMBDA c : c # "time" /\ ~\E k \in DOMAIN RequestTagCols : RequestTagCols[k] = c)

\* the field list the target of the request was configured with, None for none
ConfiguredFieldCols ==
    IF out.op = "_write_dataframe_to_influx" THEN req.target.field_cols
    ELSE IF "field_cols" \in DOMAIN req.target.attributes
         THEN req.target.attributes["field_cols"]
         ELSE None

\* what the claim says of a target whose field list is `given` or not
FieldColumnsAsClaimed(given) ==
    /\ given => out.field_cols = ConfiguredFieldCols
    /\ ~given =>
          /\ out.field_cols = (IF RequestOtherCols = << >> THEN None ELSE RequestOtherCols)
          /\ RequestOtherCols = << >> =>
                \A p \in DOMAIN out.points : out.points[p].fields = << >>

NumberKind(v) ==
    CASE v.py \in {"bool"} -> "boolean"
      [] v.py \in {"int", "numpy.int64"} -> "integer"
      [] v.py \in {"float", "numpy.float64"} -> "float"
      [] OTHER -> "other"

\* C16 (as stated): every field of a point written by write_df has one type:
\* that of its value, with the value unchanged, when the value is a boolean,
\* an integer or a float; else float when the value casts to float; else string.
C16_OneTypePerValue ==
    (out.op = "write_df" /\ out.backend = "write") =>
        \A p \in DOMAIN out.points : \A k \in DOMAIN out.points[p].fields :
            LET f == out.points[p].fields[k]
                v == req.df.rows[p][f.name]
            IN  IF NumberKind(v) # "other"
                THEN f.type = NumberKind(v) /\ f.value = v.num
                ELSE IF v.text \in {"3.14", "7"}
                THEN f.type = "float" /\ f.value = (IF v.text = "7" THEN 700 ELSE 314)
                ELSE f.type = "string" /\ f.value = v.text

\* C17 (as stated): write_dataframe returns the number of points written after
\* one backend write call, or raises MLRunRuntimeError wrapping an error.
C17_CountAfterWriteOrWriteFailed ==
    out.op = "write_dataframe" =>
        \/ /\ out.raised = "none"
           /\ out.backend = "write" /\ req.backend_ok
           /\ out.returned = Len(out.points)
        \/ /\ out.raised = "MLRunRuntimeError" /\ out.wraps # "none"
           /\ out.returned = -1

\* C17 (amended): write_dataframe returns the number of rows -- after one
\* backend write call that succeeded when there are rows, after none when
\* there is no row --, or raises MLRunRuntimeError wrapping the error of
\* write_df, or raises before write_df is called (Spark DataFrame, no path).
C17_CountOrError ==
    out.op = "write_dataframe" =>
        \/ /\ out.raised = "none"
           /\ out.returned = Len(req.df.rows)
           /\ out.returned = Len(out.points)
           /\ IF req.df.rows = << >> THEN out.backend = "none"
              ELSE out.backend = "write" /\ req.backend_ok
        \/ /\ out.raised = "MLRunRuntimeError" /\ out.wraps # "none"
           /\ out.returned = -1
           /\ out.log # << >> /\ out.log[1].level = "error"
        \/ /\ out.raised \in {"MLRunRuntimeError", "MLRunInvalidArgumentError"}
           /\ out.wraps = "none" /\ out.write_df = "none"
           /\ req.spark \/ req.target.path = << >>
           /\ out.returned = -1 /\ out.backend = "none" /\ ~out.client.created

\* the backend write failed and write_dataframe raised the wrapping error
C17_Witness ==
    /\ out.op = "write_dataframe"
    /\ out.backend = "write" /\ ~req.backend_ok
    /\ out.raised = "MLRunRuntimeError" /\ out.wraps = "BackendError"
    /\ Len(req.df.rows) = 2

\* C18 (as stated): whatever the row index labels, write_df builds one point
\* per row, in row order, with the row's own time, one tag per non-null tag
\* column of the row and the row's non-null field columns.
C18_OnePointPerRow ==
    (/\ out.op = "write_df" /\ req.backend_ok
     /\ out.site \notin {"invalid_key", "missing_config", "no_time_col"}) =>
        LET tag_cols == IF req.tag_cols = None THEN << >> ELSE req.tag_cols
            field_cols ==
                IF req.field_cols # None THEN req.field_cols
                ELSE SelectSeq(req.df.columns,
                        LAMBDA c : c # "time"
                                   /\ ~\E k \in DOMAIN tag_cols : tag_cols[k] = c)
            Present(row, cols) ==
                SelectSeq(cols, LAMBDA c : c \in DOMAIN row
                                           /\ row[c].py \notin {"NoneType", "nan"})
        IN  /\ out.raised = "none"
            /\ Len(out.points) = Len(req.df.rows)
            /\ \A p \in DOMAIN out.points :
                   LET row == req.df.rows[p]
                       point == out.points[p]
                   IN  /\ point.time = row["time"].num
                       /\ [k \in DOMAIN point.tags |-> point.tags[k].name]
                              = Present(row, tag_cols)
                       /\ \A k \in DOMAIN point.tags :
                              point.tags[k].value = row[point.tags[k].name].text
                       /\ [k \in DOMAIN point.fields |-> point.fields[k].name]
                              = Present(row, field_cols)

----------------------------------------------------------------------------
(* Properties of the storey targets, continued (checked under Spec) *)

\* C19: whenever __call__ of a batch target with batch_size >= 1 has returned
\* to its single caller, the buffer holds fewer than batch_size rows.
C19_BufferBelowBatchSize ==
    (cls = "InfluxBatchStoreyTarget" /\ ret.op = "batch_call") =>
        Len(batch_events) < batch_size

\* a __call__ that buffered its row without flushing and left the buffer one
\* row short of the largest batch size
C19_Witness ==
    /\ cls = "InfluxBatchStoreyTarget" /\ ret.op = "batch_call"
    /\ ret.appended /\ ~ret.flushed
    /\ batch_size = MaxBatch /\ Len(batch_events) = MaxBatch - 1

----------------------------------------------------------------------------
(* Properties of two workers sharing a batch target (checked under SpecWorkers) *)

\* a row that is not in the buffer, was never in the table of a write and is
\* in no table about to be written
Discarded(r) ==
    /\ ~\E k \in DOMAIN batch_events : batch_events[k] = r
    /\ attempts[r] = 0
    /\ ~\E w \in Workers :
           workers.pc[w] = "write" /\ \E k \in DOMAIN workers.df[w] : workers.df[w][k] = r

----------------------------------------------------------------------------
(* Properties of the elapsed-time trigger (checked under Spec) *)

\* C21 (as stated): when the operation before an accepted event made a flush
\* attempt, successful or failed, the event triggers a flush only if the
\* buffer has reached batch_size or flush_interval has elapsed since that
\* attempt.
C21_ElapsedSinceLastAttempt ==
    [][(AcceptedCall /\ flushes # << >> /\ ret'.should_flush) =>
          \/ Len(batch_events) + 1 >= batch_size
          \/ clock - flushes[Len(flushes)].at >= flush_interval]_vars

----------------------------------------------------------------------------
(* Properties of the address a target hands to write_df (checked under     *)
(* SpecWrite)                                                              *)

\* the last operation was a target's write that built an address
AddressBuilt ==
    /\ out.op \in {"write_dataframe", "_write_dataframe_to_influx"}
    /\ out.uri # << >>

\* what the target of the last write was configured with
ConfiguredAddress ==
    LET target == req.target
        overrides == IF out.op = "write_dataframe" THEN target.attributes
                     ELSE target.connection_overrides
    IN  [path |-> IF out.op = "write_dataframe" THEN target.path ELSE target.target_path,
         env |-> IF out.op = "write_dataframe" THEN target.attributes["env"] ELSE target.env,
         overrides |-> [name \in OverrideNames |->
                           IF name \in DOMAIN overrides /\ Truthy(overrides[name])
                           THEN overrides[name] ELSE None]]

\* C22 (as stated): the address a target builds round-trips through
\* write_df's parser: the parsed bucket and measurement are the configured
\* ones, the parsed environment is the configured one (in upper case), every
\* configured override is parsed with exactly its value and an override that
\* was not configured is parsed as absent.
C22_AddressRoundTrips ==
    AddressBuilt =>
        /\ out.address.bucket \o << "/" >> \o out.address.measurement = ConfiguredAddress.path
        /\ out.address.env = Upper(ConfiguredAddress.env)
        /\ \A name \in OverrideNames : out.address[name] = ConfiguredAddress.overrides[name]

----------------------------------------------------------------------------
(* The batch target while time passes: the clock always advances, whereas   *)
(* no event has to arrive and the target does not have to be torn down.     *)
(* The class starts no timer or thread, so between two events only the      *)
(* clock moves; its last value MaxTime stands for every later instant.      *)

SpecLive == Init /\ [][Next]_vars /\ WF_vars(Tick)

\* row r waits in the buffer
Buffered(r) == \E i \in DOMAIN batch_events : batch_events[i] = r

\* C23 (as stated): a row that has been in the buffer for flush_interval or
\* longer (it was buffered at time t and the clock has reached
\* t + flush_interval) eventually leaves the buffer through a flush, even if
\* no further event arrives and no teardown occurs.
C23_OverdueRowFlushed ==
    \A r \in 1..MaxCalls, t \in 0..MaxTime :
        []((Buffered(r) /\ clock = t) =>
              []((clock >= t + flush_interval) => <>(~Buffered(r))))

====
